---- MODULE Spec2Model ----
(***************************************************************************)
(* Session handling of the RBAC console: the token store (localStorage),   *)
(* TokenManager and the gateways of services/api.ts, the 401 interceptor   *)
(* of services/api.ts, the 401 interceptor / failedQueue of                *)
(* services/authApi.ts, login and logout.                                  *)
(*                                                                         *)
(* The browser is single threaded: one step of the model is one task of    *)
(* the event loop (a view calling a gateway, an HTTP response arriving, a  *)
(* click on Logout) together with every promise continuation that the     *)
(* task makes runnable.  A step therefore ends only where the code awaits  *)
(* a network response.                                                     *)
(*                                                                         *)
(* Both interceptors are registered on the one default axios instance, so  *)
(* a rejected response runs through them in registration order.  App.tsx   *)
(* with the login page imports LoginPage (authApi) before the views        *)
(* (api.ts): authApi's handler runs first.  The earlier App.tsx imports    *)
(* only the views: api.ts's handler runs alone.                            *)
(***************************************************************************)
EXTENDS Naturals, Sequences, FiniteSets

\* ---- bounds of the model
NCalls == 2
MaxReq == 7
MaxTok == 4
MaxTime == 1

VARIABLES
    authLoaded,     \* services/authApi.ts is part of the bundle (interceptor installed)
    now,            \* Date.now() / 1000
    nextTok,        \* the next token the backend issues
    access,         \* localStorage access_token
    refresh,        \* localStorage refresh_token
    defaultAuth,    \* axios.defaults.headers.common.Authorization
    isRefreshing,   \* authApi.ts isRefreshing
    failedQueue,    \* authApi.ts failedQueue: the requests whose handler waits in it
    refreshPromise, \* TokenManager.refreshPromise !== null
    waiters,        \* the callers awaiting TokenManager.refreshPromise, in order
    req,            \* every HTTP request dispatched since the page loaded
    call,           \* the logical requests of the views
    navPending,     \* window.location.href = '/login' was assigned
    loggedOut,      \* a logout ran and no login succeeded since
    app,            \* the state of the App component and the query string of its URL
    view,           \* the state of the mounted view and its handlers awaiting a call
    mock            \* mockApi.ts: the four collections and the calls waiting in delay()

vars == <<authLoaded, now, nextTok, access, refresh, defaultAuth, isRefreshing,
          failedQueue, refreshPromise, waiters, req, call, navPending, loggedOut, app,
          view, mock>>

\* the logical requests the views of this page may make
Calls == DOMAIN call

\* localStorage.getItem returns null: no token
NoToken == [id |-> 0, exp |-> 0, form |-> "none"]
NoRefresh == 0

\* A JWT the backend issued at time t: payload.exp is its issue time, it is
\* good until the clock passes it.
IssuedToken(n, t) == [id |-> n, exp |-> t, form |-> "jwt"]

\* What localStorage may hold under access_token besides a JWT:
\*   "onePart"    no '.', token.split('.')[1] is undefined
\*   "twoPart"    "payload-less signature": two parts, the second a good payload
\*   "notBase64"  the second part is not base64
\*   "notJson"    the second part decodes to text that is not JSON
\*   "noExp"      the payload is a JSON object without exp
StoredToken(n, t, form) == [id |-> n, exp |-> t, form |-> form]

\* api.ts 30-38: TokenManager.isTokenExpired.  atob and JSON.parse throw for
\* "onePart", "notBase64" and "notJson" (caught: true); for "noExp"
\* payload.exp is undefined and undefined < now is false.
isTokenExpired(token) ==
    CASE token.form \in {"onePart", "notBase64", "notJson"} -> TRUE
      [] token.form = "noExp" -> FALSE
      [] OTHER -> token.exp < now

\* error.response?.status of an error that carries no response
NoResponse == 0

\* ---- response.data: a JSON value.  "array" is a bare array of `items`,
\* "paged" an object {results: items}, "object" any other object (for a 400,
\* the backend's field errors), "none" null or an empty body.
Json(shape, items) == [shape |-> shape, items |-> items]
NoData == Json("none", <<>>)

\* ---- outcomes of a promise: a response, an AxiosError or a plain Error
Response(r, tok, rtok, data) ==
    [ok |-> TRUE, status |-> 200, cfg |-> r, tok |-> tok, rtok |-> rtok, msg |-> "response",
     data |-> data]
AxiosError(r, status, data) ==
    [ok |-> FALSE, status |-> status, cfg |-> r, tok |-> NoToken, rtok |-> NoRefresh,
     msg |-> "AxiosError", data |-> data]
PlainError(msg) ==
    [ok |-> FALSE, status |-> NoResponse, cfg |-> 0, tok |-> NoToken, rtok |-> NoRefresh,
     msg |-> msg, data |-> NoData]

\* the interceptor's test without the status: every error starts the recovery
IsErrorNotRetried(S, out) ==
    /\ ~out.ok
    /\ out.cfg # 0
    /\ ~S.req[out.cfg].retry

\* error.response?.status === 401 && !originalRequest._retry
Is401NotRetried(S, out) ==
    /\ ~out.ok
    /\ out.status = 401
    /\ ~S.req[out.cfg].retry

\* ---- mockApi.ts 243-378: the collections as the module defines them; an
\* entity is its id (ids are the decimal strings of these numbers); `calls`
\* counts the calls made
MockData ==
    [users |-> <<1, 2, 3, 4>>, roles |-> <<1, 2, 3>>, groups |-> <<1, 2, 3>>,
     applications |-> <<1, 2, 3>>, pending |-> {}, calls |-> 0]
Collections == {"users", "roles", "groups", "applications"}

\* ---- the mutable state a task works on
State ==
    [access |-> access, refresh |-> refresh, defaultAuth |-> defaultAuth,
     isRefreshing |-> isRefreshing, failedQueue |-> failedQueue,
     refreshPromise |-> refreshPromise, waiters |-> waiters,
     req |-> req, call |-> call, navPending |-> navPending, loggedOut |-> loggedOut,
     app |-> app, view |-> view, mock |-> mock]

Becomes(S) ==
    /\ access' = S.access
    /\ refresh' = S.refresh
    /\ defaultAuth' = S.defaultAuth
    /\ isRefreshing' = S.isRefreshing
    /\ failedQueue' = S.failedQueue
    /\ refreshPromise' = S.refreshPromise
    /\ waiters' = S.waiters
    /\ req' = S.req
    /\ call' = S.call
    /\ navPending' = S.navPending
    /\ loggedOut' = S.loggedOut
    /\ app' = S.app
    /\ view' = S.view
    /\ mock' = S.mock
    /\ Len(S.req) <= MaxReq

Parent(k, id) == [k |-> k, id |-> id]

\* ---- App.tsx 113-115: isAuthenticated, isLoading, authChecked.  `search` says
\* whether the URL of the page has ?logout=true; `forced` that the auth check of
\* this page took the forced logout, `found` that it then found a token stored.
LoadingApp(search) ==
    [isAuthenticated |-> FALSE, isLoading |-> TRUE, authChecked |-> FALSE,
     search |-> search, forced |-> FALSE, found |-> FALSE]

\* App after its auth check on a URL without the parameter
CheckedApp(isAuthenticated) ==
    [isAuthenticated |-> isAuthenticated, isLoading |-> FALSE, authChecked |-> TRUE,
     search |-> FALSE, forced |-> FALSE, found |-> FALSE]

\* App after the forced logout of lines 129-140
ForcedApp(S) ==
    [CheckedApp(FALSE) EXCEPT !.forced = TRUE,
                              !.found = (S.access # NoToken \/ S.refresh # NoRefresh)]

\* the earlier App.tsx keeps no state and always shows the views
NoApp == CheckedApp(TRUE)

\* checkAuthStatus with lines 131-133 left out: the forced logout keeps the tokens
checkAuthStatusKeepsTokens(S) ==
    IF S.app.search THEN
        [S EXCEPT !.app = ForcedApp(S)]
    ELSE IF S.access = NoToken \/ S.refresh = NoRefresh THEN
        [S EXCEPT !.app = CheckedApp(FALSE)]
    ELSE [S EXCEPT !.defaultAuth = S.access, !.app = CheckedApp(TRUE)]

\* App.tsx 120-181: checkAuthStatus, run by the effect after the first render
checkAuthStatus(S) ==
    IF S.app.search THEN
        \* 129-140, 177-178
        [S EXCEPT !.access = NoToken, !.refresh = NoRefresh, !.defaultAuth = NoToken,
                  !.app = ForcedApp(S)]
    ELSE IF S.access = NoToken \/ S.refresh = NoRefresh THEN
        \* 152-159, 177-178
        [S EXCEPT !.app = CheckedApp(FALSE)]
    ELSE
        \* 162-167, 177-178
        [S EXCEPT !.defaultAuth = S.access, !.app = CheckedApp(TRUE)]

\* axios(config): dispatch one HTTP request; `parent` is what awaits the
\* promise axios returns (after the interceptors).
Send(S, kind, c, bearer, retry, body, parent, resendOf) ==
    [S EXCEPT !.req = Append(@,
        [kind |-> kind, call |-> c, bearer |-> bearer, retry |-> retry,
         body |-> body, parent |-> parent, st |-> "flight", orig |-> 0,
         resendOf |-> resendOf, resp |-> NoResponse, respTok |-> NoToken,
         respData |-> NoData, note |-> "none"])]

\* axios(originalRequest): the config is merged into a new one (its _retry
\* flag and body are copied), with the Authorization header just set on it.
\* An error of the resent request carries the new config as error.config.
Resend(S, o, tok, parent) ==
    Send(S, S.req[o].kind, S.req[o].call, tok, S.req[o].retry, S.req[o].body, parent, o)

\* api.ts 176-185: what handleApiCall throws for the error it caught.  The
\* Error made for a 400 has the backend's field errors in its message.
handleApiCall(error) ==
    IF error.status = 400 THEN [PlainError("Validation failed") EXCEPT !.data = error.data]
    ELSE IF error.status = 500 THEN PlainError("Server error occurred")
    ELSE error

\* the functions of api.ts that run inside handleApiCall
ThroughHandleApiCall == {"gateway", "login"}

\* api.ts 197-204, 278-285, 333-340: fetchRoles, fetchGroups and
\* fetchApplications return the results of a paginated body, a bare array as
\* it is and [] for anything else
ExtractResults(data) ==
    IF data.shape = "paged" THEN Json("array", data.items)
    ELSE IF data.shape = "array" THEN data
    ELSE Json("array", <<>>)

ListGateways == {"fetchUsers", "fetchRoles", "fetchGroups", "fetchApplications"}

\* what gateway function fn returns for the response body; every function but
\* the three above returns response.data (api.ts 401, 214, ...)
GatewayResult(fn, data) ==
    IF fn \in {"fetchRoles", "fetchGroups", "fetchApplications"} THEN ExtractResults(data)
    ELSE data

\* ---- the views.  A view keeps its lists in React state; a handler that
\* awaits a gateway keeps, in its closure, the state of the render it was
\* created in.
NoEntity == [id |-> 0]
NoStats == [users |-> 0, roles |-> 0, groups |-> 0, applications |-> 0, set |-> FALSE]

\* no view is mounted
NoView ==
    [name |-> "none", list |-> <<>>, selected |-> NoEntity, roles |-> <<>>,
     groups |-> <<>>, applications |-> <<>>, loading |-> FALSE, load |-> "idle",
     notification |-> "none", timers |-> 0, error |-> "none", stats |-> NoStats,
     handlers |-> <<>>]

MapSeq(q, F(_)) == [i \in DOMAIN q |-> F(q[i])]
\* GroupList.tsx 212: a.name || a.title || a.app_name || `App ${a.id}`, the
\* name of the application with this id
AppName(id) == [name |-> id]
Ids(q) == {q[i].id : i \in DOMAIN q}
Elems(q) == {q[i] : i \in DOMAIN q}

\* the closure of a handler of the mounted view that awaits a call: its
\* argument (an entity, or the id toggled in a modal), the value it computed
\* before the await, and the list, selected entity and reference list of its
\* render
Closure(S, op, arg, updated, aux) ==
    [op |-> op, arg |-> arg, updated |-> updated, list |-> S.view.list,
     selected |-> S.view.selected, aux |-> aux, during |-> {}]

\* the handler with closure h awaits the promise of logical request c
Await(S, c, h) ==
    [S EXCEPT !.view.handlers =
        [d \in DOMAIN @ \cup {c} |-> IF d = c THEN h ELSE @[d]]]

\* UserList.tsx 140-143 (RoleList.tsx 87-90, GroupList.tsx 92-95):
\* showNotification sets the notification and starts the timer that clears it
showNotification(S, type) ==
    [S EXCEPT !.view.notification = type, !.view.timers = @ + 1]

\* the statements after the await of an update or delete handler
\*   UserList.tsx 163-164 (toggleStatus), 176-177 (deleteUser),
\*   part_004 262-271 (roleToggle), part_008 101-102 (deleteRole), 142-159
\*   (groupToggle), GroupList.tsx 102-103 (deleteGroup), 208-225
\*   (applicationToggle)
HandlerSucceeded(S, h) ==
    LET IsArg(e) == e.id = h.arg.id
        NotArg(e) == e.id # h.arg.id
        Kept(e) == e.id \in Elems(h.updated)
        KeptIds == MapSeq(SelectSeq(h.aux, Kept), LAMBDA e : e.id)
        updatedEntity ==
            CASE h.op = "toggleStatus" -> [h.arg EXCEPT !.status = h.updated]
              [] h.op = "roleToggle" -> [h.selected EXCEPT !.roles = h.updated]
              [] h.op = "groupToggle" -> [h.selected EXCEPT !.groups = KeptIds]
              [] h.op = "applicationToggle" ->
                    [h.selected EXCEPT !.applications = KeptIds,
                                       !.application_ids = h.updated,
                                       !.application_names = MapSeq(KeptIds, AppName)]
              [] OTHER -> NoEntity
        Status(e) == IF e.id = h.arg.id THEN [e EXCEPT !.status = h.updated] ELSE e
        Roles(e) == IF e.id = h.selected.id THEN [e EXCEPT !.roles = h.updated] ELSE e
        Whole(e) == IF e.id = h.selected.id THEN updatedEntity ELSE e
        S1 == CASE h.op = "toggleStatus" ->
                     [S EXCEPT !.view.list = MapSeq(h.list, Status)]
                [] h.op \in {"deleteUser", "deleteRole", "deleteGroup"} ->
                     [S EXCEPT !.view.list = SelectSeq(h.list, NotArg)]
                [] h.op = "roleToggle" ->
                     [S EXCEPT !.view.list = MapSeq(h.list, Roles),
                               !.view.selected = updatedEntity]
                [] h.op \in {"groupToggle", "applicationToggle"} ->
                     [S EXCEPT !.view.list = MapSeq(h.list, Whole),
                               !.view.selected = updatedEntity]
                [] OTHER -> S
    IN showNotification(S1, "success")

\* a catch block that also drops what the closure changed: the list of its
\* render comes back and the modal's entity is forgotten
HandlerFailedResets(S, h) ==
    showNotification([S EXCEPT !.view.list = h.list, !.view.selected = NoEntity], "error")

\* the catch block of the same handlers (UserList.tsx 165-168, 178-181, ...)
HandlerFailed(S, h) == showNotification(S, "error")

\* the calls Promise.all waits for in the load that call c belongs to
LoadCalls(h) == h.arg.id .. (h.arg.id + h.updated - 1)

\* loadData without Promise.all: every list is set as its fetch completes
loadDataSettledEach(S, c, h) ==
    IF S.call[c].st = "failed" THEN
        [showNotification(S, "error") EXCEPT !.view.list = <<>>, !.view.roles = <<>>,
                                             !.view.groups = <<>>, !.view.loading = FALSE,
                                             !.view.load = "failed"]
    ELSE LET items == ExtractResults(S.call[c].result).items
             S1 == IF c = h.arg.id THEN [S EXCEPT !.view.list = items]
                   ELSE IF c = h.arg.id + 1 THEN [S EXCEPT !.view.roles = items]
                   ELSE [S EXCEPT !.view.groups = items]
         IN IF \A d \in LoadCalls(h) : S.call[d].st = "ok"
            THEN [S1 EXCEPT !.view.loading = FALSE, !.view.load = "done"]
            ELSE S1

\* UserList.tsx 87-136: what loadData does once Promise.all settles.
\* Promise.all rejects with the first rejection; what the other fetches give
\* afterwards is dropped.
loadDataSettled(S, c, h) ==
    IF S.view.load # "pending" THEN S
    ELSE IF S.call[c].st = "failed" THEN
        \* 129-136
        [showNotification(S, "error") EXCEPT !.view.list = <<>>, !.view.roles = <<>>,
                                             !.view.groups = <<>>, !.view.loading = FALSE,
                                             !.view.load = "failed"]
    ELSE IF \A d \in LoadCalls(h) : S.call[d].st = "ok" THEN
        \* 87-128, 134-136
        [S EXCEPT !.view.list = ExtractResults(S.call[h.arg.id].result).items,
                  !.view.roles = ExtractResults(S.call[h.arg.id + 1].result).items,
                  !.view.groups = ExtractResults(S.call[h.arg.id + 2].result).items,
                  !.view.loading = FALSE, !.view.load = "done"]
    ELSE S

\* Dashboard.tsx 87-92: every fetch has its own catch that gives an empty
\* result, so Promise.all waits for all four; 94-138: the counts are set
loadDashboardDataSettled(S, c, h) ==
    IF \A d \in LoadCalls(h) : S.call[d].st \in {"ok", "failed"} THEN
        LET Got(d) == IF S.call[d].st = "ok" THEN ExtractResults(S.call[d].result).items
                      ELSE <<>>
        IN [S EXCEPT !.view.stats = [users |-> Len(Got(h.arg.id)),
                                     roles |-> Len(Got(h.arg.id + 1)),
                                     groups |-> Len(Got(h.arg.id + 2)),
                                     applications |-> Len(Got(h.arg.id + 3)),
                                     set |-> TRUE],
                     !.view.loading = FALSE, !.view.load = "done"]
    ELSE S

\* the promise of logical request c has settled: the handler of the mounted
\* view that awaits it, if any, continues
ViewSettled(S, c) ==
    IF c \notin DOMAIN S.view.handlers THEN S
    ELSE LET h == S.view.handlers[c]
         IN CASE h.op = "loadData" -> loadDataSettled(S, c, h)
              [] h.op = "loadDashboardData" -> loadDashboardDataSettled(S, c, h)
              [] OTHER -> IF S.call[c].st = "ok" THEN HandlerSucceeded(S, h)
                          ELSE HandlerFailed(S, h)

\* the promise of logical request c rejects with `error`
Rejected(S, c, error) ==
    LET e == IF S.call[c].kind \in ThroughHandleApiCall THEN handleApiCall(error) ELSE error
    IN ViewSettled([S EXCEPT !.call[c].st = "failed", !.call[c].err = e.msg,
                             !.call[c].status = e.status, !.call[c].result = e.data], c)

\* ---- the promise continuations of one task.  Each takes the state the task
\* has reached and gives the state where it next awaits the network.
RECURSIVE AuthResponseError(_, _, _), AuthRefreshSettled(_, _, _),
          ProcessEntries(_, _, _, _), ApiResponseError(_, _, _),
          refreshToken(_, _), RefreshSettled(_, _), ResumeWaiters(_, _, _),
          Resume(_, _, _), ApiGetAuthHeaders(_, _), ApiRefreshFailed(_, _, _),
          Settle(_, _, _), CallSettled(_, _, _)

Done(S, r) == [S EXCEPT !.req[r].st = "done"]

\* the queued request sent again without line 45: it keeps its Authorization header
QueuedRetryOldHeader(S, w, token) ==
    Resend([S EXCEPT !.req[w].st = "authRetry"], S.req[w].orig,
           S.req[S.req[w].orig].bearer, Parent("authRetry", w))

\* authApi.ts 44-46: a queued request, resolved with the new token, is sent
\* again with it.  Its config was never marked _retry.
QueuedRetry(S, w, token) ==
    Resend([S EXCEPT !.req[w].st = "authRetry"], S.req[w].orig, token, Parent("authRetry", w))

\* authApi.ts 16-22: failedQueue.forEach.  A rejected entry's handler rejects
\* with the same error (47-49), which the next interceptor then sees.
ProcessEntries(S, q, error, token) ==
    IF q = <<>> THEN S
    ELSE LET w == Head(q)
             S1 == IF error.ok THEN QueuedRetry(S, w, token)
                   ELSE ApiResponseError(S, w, error)
         IN ProcessEntries(S1, Tail(q), error, token)

Reverse(q) == [i \in 1..Len(q) |-> q[Len(q) + 1 - i]]

\* processQueue walking failedQueue from its last entry to its first
processQueueReversed(S, error, token) ==
    ProcessEntries([S EXCEPT !.failedQueue = <<>>], Reverse(S.failedQueue), error, token)

\* authApi.ts 15-25: processQueue(error, token); error.ok stands for error = null.
\* resolve and reject only schedule the queued handlers, so the model applies
\* processQueue after the rest of the calling handler.
processQueue(S, error, token) ==
    ProcessEntries([S EXCEPT !.failedQueue = <<>>], S.failedQueue, error, token)

\* authApi.ts 89-92 and 61-64: clear both tokens, drop the default header, go to /login
AuthClearSession(S) ==
    [S EXCEPT !.access = NoToken, !.refresh = NoRefresh, !.defaultAuth = NoToken,
              !.navPending = TRUE]

\* authApi.ts 34-101: the rejected handler of authApi's response interceptor,
\* run for request r's promise with error `out`
AuthResponseError(S, r, out) ==
    IF Is401NotRetried(S, out) THEN
        IF S.isRefreshing THEN
            \* 40-50: wait in failedQueue
            [S EXCEPT !.failedQueue = Append(@, r), !.req[r].st = "authQueue",
                      !.req[r].orig = out.cfg]
        ELSE
            LET S1 == [S EXCEPT !.req[out.cfg].retry = TRUE, !.isRefreshing = TRUE,
                                !.req[r].orig = out.cfg]
            IN IF S1.refresh = NoRefresh THEN
                   \* 57-66; the queued handlers continue once this one has returned
                   LET S2 == AuthClearSession([S1 EXCEPT !.isRefreshing = FALSE,
                                                         !.req[r].note = "noRefreshToken"])
                   IN processQueue(ApiResponseError(S2, r, out), out, NoToken)
               ELSE
                   \* 68-72: await axios.post('/api/token/refresh/')
                   Send([S1 EXCEPT !.req[r].st = "authRefresh"], "refresh", 0,
                        S1.defaultAuth, FALSE, S1.refresh, Parent("authRefresh", r), 0)
    ELSE ApiResponseError(S, r, out)

\* authApi.ts 74-96: the refresh that request r's handler awaited has settled
AuthRefreshSettled(S, r, out) ==
    IF out.ok THEN
        \* 74-83, 95; the queued handlers continue once this one has returned
        LET S1 == [S EXCEPT !.access = out.tok, !.defaultAuth = out.tok,
                            !.req[r].st = "authRetry"]
            S2 == Resend(S1, S1.req[r].orig, out.tok, Parent("authRetry", r))
        IN processQueue([S2 EXCEPT !.isRefreshing = FALSE], out, out.tok)
    ELSE
        \* 84-96
        LET S1 == AuthClearSession([S EXCEPT !.isRefreshing = FALSE,
                                            !.req[r].note = "refreshRejected"])
        IN processQueue(ApiResponseError(S1, r, out), out, NoToken)

\* performTokenRefresh without line 68: the new token is returned, not stored
performTokenRefreshNotStored(S, out) ==
    IF out.ok THEN S
    ELSE [S EXCEPT !.access = NoToken, !.refresh = NoRefresh]

\* api.ts 56-75: what performTokenRefresh does with the refresh response
performTokenRefresh(S, out) ==
    IF out.ok THEN [S EXCEPT !.access = out.tok]
    ELSE [S EXCEPT !.access = NoToken, !.refresh = NoRefresh]

\* api.ts 40-54: tokenManager.refreshToken() called by `w`, which awaits it
refreshToken(S, w) ==
    IF S.refreshPromise THEN [S EXCEPT !.waiters = Append(@, w)]
    ELSE IF S.refresh = NoRefresh THEN
        \* 57-60: performTokenRefresh throws before any request; 51-53 clear the marker
        Resume(S, w, PlainError("No refresh token available"))
    ELSE Send([S EXCEPT !.refreshPromise = TRUE, !.waiters = <<w>>], "refresh", 0,
              S.defaultAuth, FALSE, S.refresh, Parent("tm", 0), 0)

\* api.ts 49-53 and 62-74: the request performTokenRefresh awaited has settled:
\* store or clear, clear refreshPromise, then every awaiting caller continues
RefreshSettled(S, out) ==
    LET S1 == performTokenRefresh(S, out)
        S2 == [S1 EXCEPT !.refreshPromise = FALSE, !.waiters = <<>>]
        res == IF out.ok THEN out ELSE PlainError("Token refresh failed")
    IN ResumeWaiters(S2, S.waiters, res)

ResumeWaiters(S, ws, res) ==
    IF ws = <<>> THEN S
    ELSE ResumeWaiters(Resume(S, Head(ws), res), Tail(ws), res)

\* api.ts 97-103 followed by the gateway's axios call (e.g. 193-194)
SendCall(S, c, token) ==
    Send([S EXCEPT !.call[c].st = "awaitHttp", !.call[c].tok = token],
         "data", c, token, FALSE, NoRefresh, Parent("call", c), 0)

\* the caller w of refreshToken() continues with its result
Resume(S, w, res) ==
    CASE w.k = "call" ->
           \* api.ts 91-95 in getAuthHeaders of a gateway
           IF res.ok THEN SendCall(S, w.id, res.tok)
           ELSE Rejected([S EXCEPT !.navPending = TRUE], w.id, res)
      [] w.k = "apiRefresh" ->
           \* api.ts 142-143 in the interceptor
           IF res.ok THEN ApiGetAuthHeaders(S, w.id)
           ELSE ApiRefreshFailed(S, w.id, res)
      [] w.k = "apiHeaders" ->
           \* api.ts 91-95 in getAuthHeaders called by the interceptor, then 144-145
           IF res.ok THEN Resend([S EXCEPT !.req[w.id].st = "apiRetry"], S.req[w.id].orig,
                                 res.tok, Parent("apiRetry", w.id))
           ELSE ApiRefreshFailed([S EXCEPT !.navPending = TRUE], w.id, res)

\* api.ts 143-145: getAuthHeaders() in the interceptor, then the resend
ApiGetAuthHeaders(S, r) ==
    IF S.access = NoToken THEN
        ApiRefreshFailed(S, r, PlainError("No authentication token found"))
    ELSE IF isTokenExpired(S.access) THEN
        refreshToken([S EXCEPT !.req[r].st = "apiHeaders"], Parent("apiHeaders", r))
    ELSE Resend([S EXCEPT !.req[r].st = "apiRetry"], S.req[r].orig, S.access,
                Parent("apiRetry", r))

\* api.ts 146-151
ApiRefreshFailed(S, r, error) ==
    Settle([S EXCEPT !.access = NoToken, !.refresh = NoRefresh, !.navPending = TRUE,
                     !.req[r].note = "refreshFailed"], r, error)

\* api.ts 127-160: the rejected handler of api.ts's response interceptor
ApiResponseError(S, r, out) ==
    IF Is401NotRetried(S, out) THEN
        refreshToken([S EXCEPT !.req[out.cfg].retry = TRUE, !.req[r].orig = out.cfg,
                               !.req[r].st = "apiRefresh"], Parent("apiRefresh", r))
    ELSE Settle(S, r, out)

\* The promise axios returned for request r settles with `out`: whatever
\* awaits it continues.
Settle(S, r, out) ==
    LET p == S.req[r].parent
        S1 == Done(S, r)
    IN CASE p.k = "call" -> CallSettled(S1, p.id, out)
         [] p.k = "tm" -> RefreshSettled(S1, out)
         [] p.k = "authRefresh" -> AuthRefreshSettled(S1, p.id, out)
         [] p.k = "authRetry" -> IF out.ok THEN Settle(S1, p.id, out)
                                 ELSE ApiResponseError(S1, p.id, out)
         [] p.k = "apiRetry" -> Settle(S1, p.id, out)

\* the gateway, view handler or login function that awaited the request
CallSettled(S, c, out) ==
    IF ~out.ok THEN Rejected(S, c, out)
    ELSE CASE S.call[c].kind = "loginWithEmail" ->
                \* authApi.ts 166-172, LoginPage.tsx 57-59, App.tsx 189-191
                [S EXCEPT !.access = out.tok, !.refresh = out.rtok,
                          !.defaultAuth = out.tok, !.loggedOut = FALSE,
                          !.app.isAuthenticated = TRUE,
                          !.call[c].st = "ok"]
           [] S.call[c].kind = "login" ->
                \* api.ts 441-446
                [S EXCEPT !.access = out.tok, !.refresh = out.rtok,
                          !.loggedOut = FALSE, !.call[c].st = "ok"]
           [] S.call[c].kind = "gateway" ->
                ViewSettled([S EXCEPT !.call[c].st = "ok",
                                      !.call[c].result = GatewayResult(S.call[c].fn, out.data)],
                            c)
           [] OTHER -> ViewSettled([S EXCEPT !.call[c].st = "ok"], c)

\* A response or error leaves the network for request r: the interceptors run
Arrive(S, r, out) ==
    LET S1 == [S EXCEPT !.req[r].st = "handling", !.req[r].resp = out.status,
                        !.req[r].respTok = out.tok, !.req[r].respData = out.data]
    IN IF out.ok THEN Settle(S1, r, out)
       ELSE IF authLoaded THEN AuthResponseError(S1, r, out)
       ELSE ApiResponseError(S1, r, out)

\* ---- the tasks of the event loop
IdleCall ==
    [kind |-> "none", fn |-> "none", st |-> "idle", tok |-> NoToken, err |-> "none",
     status |-> NoResponse, result |-> NoData, refreshed |-> FALSE]

\* the views' logical requests are numbered in the order they are issued
IsNextCall(c) ==
    /\ call[c].st = "idle"
    /\ \A d \in Calls : d < c => call[d].st # "idle"

Start(S, c, kind, fn) == [S EXCEPT !.call[c].kind = kind, !.call[c].fn = fn]

\* getAuthHeaders without the test of line 89: every stored token is refreshed
getAuthHeadersAlwaysRefresh(S, c) ==
    IF S.access = NoToken THEN
        Rejected(S, c, PlainError("No authentication token found"))
    ELSE refreshToken([S EXCEPT !.call[c].st = "awaitHeaders", !.call[c].refreshed = TRUE],
                      Parent("call", c))

\* api.ts 81-104 inside a gateway function (fetchRoles, updateUser, ...):
\* getAuthHeaders, then the request
getAuthHeaders(S, c) ==
    IF S.access = NoToken THEN
        Rejected(S, c, PlainError("No authentication token found"))
    ELSE IF isTokenExpired(S.access) THEN
        refreshToken([S EXCEPT !.call[c].st = "awaitHeaders", !.call[c].refreshed = TRUE],
                     Parent("call", c))
    ELSE SendCall(S, c, S.access)

\* a view calls gateway function fn of api.ts
GatewayCall(c, fn) ==
    /\ IsNextCall(c)
    /\ Becomes(getAuthHeaders(Start(State, c, "gateway", fn), c))
    /\ UNCHANGED <<authLoaded, now, nextTok>>

\* api.ts 107-112: a token is stored and isTokenExpired says it is not expired
isAuthenticated(S) == S.access # NoToken /\ ~isTokenExpired(S.access)

\* RoleForm.tsx 176-179, GroupList.tsx 729-732, ApplicationForm.tsx 453-456,
\* 522-525: the handler shows "session expired" and returns; no function of
\* api.ts is called
Refused(S, c) ==
    [S EXCEPT !.call[c].st = "refused", !.call[c].err = "Your session has expired"]

\* RoleForm.handleSubmit, ApplicationList.loadApplications and
\* handleDeleteApplication: isAuthenticated() first, then gateway function fn
GuardedCall(c, fn) ==
    /\ IsNextCall(c)
    /\ Becomes(IF isAuthenticated(State)
               THEN getAuthHeaders(Start(State, c, "gateway", fn), c)
               ELSE Refused(Start(State, c, "view", fn), c))
    /\ UNCHANGED <<authLoaded, now, nextTok>>

\* UserList.tsx 14-22, 172-193: handleDeleteUser / handleSendInvite send with
\* whatever localStorage holds, without TokenManager
DirectCall(c) ==
    /\ IsNextCall(c)
    /\ Becomes(SendCall(Start(State, c, "direct", "axios"), c, access))
    /\ UNCHANGED <<authLoaded, now, nextTok>>

\* ---- the handlers of the list views
User(id, status, roles) == [id |-> id, status |-> status, roles |-> roles]
Role(id, groups) == [id |-> id, groups |-> groups]
Group(id, applications, application_ids, application_names) ==
    [id |-> id, applications |-> applications, application_ids |-> application_ids,
     application_names |-> application_names]

\* [...new Set(q)]: the first occurrence of every element, in order
RECURSIVE UniqueOf(_, _)
UniqueOf(q, acc) ==
    IF q = <<>> THEN acc
    ELSE UniqueOf(Tail(q), IF Head(q) \in Elems(acc) THEN acc ELSE Append(acc, Head(q)))

\* q.includes(x) ? q.filter(e => e !== x) : [...q, x]
Toggled(q, x) ==
    IF x \in Elems(q) THEN SelectSeq(q, LAMBDA e : e # x) ELSE Append(q, x)

\* the calls that have been made and have not settled
Unsettled(S) == {d \in DOMAIN S.call : S.call[d].st \in {"awaitHeaders", "awaitHttp"}}

\* a handler of the mounted view calls gateway function fn and awaits it;
\* `during` records the calls that were unsettled when it did
ViewGateway(c, fn, h) ==
    /\ IsNextCall(c)
    /\ Becomes(getAuthHeaders(
           Start(Await(State, c, [h EXCEPT !.during = Unsettled(State)]), c, "gateway", fn),
           c))
    /\ UNCHANGED <<authLoaded, now, nextTok>>

\* UserList.tsx 145-169: handleToggleStatus(user)
handleToggleStatus(c, user) ==
    /\ view.name = "UserList"
    /\ user \in Elems(view.list)
    /\ LET newStatus == IF user.status = "active" THEN "inactive" ELSE "active"
       IN ViewGateway(c, "updateUser", Closure(State, "toggleStatus", user, newStatus, <<>>))

\* UserList.tsx 171-182: handleDeleteUser(user), confirmed by the operator;
\* axios.delete with the stored token, without TokenManager
handleDeleteUser(c, user) ==
    /\ view.name = "UserList"
    /\ user \in Elems(view.list)
    /\ IsNextCall(c)
    /\ LET h == [Closure(State, "deleteUser", user, 0, <<>>)
                     EXCEPT !.during = Unsettled(State)]
       IN Becomes(SendCall(Start(Await(State, c, h), c, "direct", "axios"), c, access))
    /\ UNCHANGED <<authLoaded, now, nextTok>>

\* part_004 237-240, part_008 117-120, GroupList.tsx 176-179: the operator
\* opens the modal of an entity of the list
handleManage(entity) ==
    /\ view.name \in {"UserList", "RoleList", "GroupList"}
    /\ entity \in Elems(view.list)
    /\ view' = [view EXCEPT !.selected = entity]
    /\ UNCHANGED <<authLoaded, now, nextTok, access, refresh, defaultAuth, isRefreshing,
                   failedQueue, refreshPromise, waiters, req, call, navPending, loggedOut,
                   app, mock>>

\* part_004 242-278: handleRoleToggle(roleName) in the roles modal
handleRoleToggle(c, roleName) ==
    /\ view.name = "UserList"
    /\ view.selected # NoEntity
    /\ LET updatedRoles == Toggled(view.selected.roles, roleName)
       IN ViewGateway(c, "updateUser",
                      Closure(State, "roleToggle", [id |-> roleName], updatedRoles, view.roles))

\* part_008 97-108: handleDeleteRole(role)
handleDeleteRole(c, role) ==
    /\ view.name = "RoleList"
    /\ role \in Elems(view.list)
    /\ ViewGateway(c, "deleteRole", Closure(State, "deleteRole", role, 0, <<>>))

\* part_008 122-165: handleGroupToggle(groupId) in the groups modal
handleGroupToggle(c, groupId) ==
    /\ view.name = "RoleList"
    /\ view.selected # NoEntity
    /\ LET updatedGroupIds == Toggled(view.selected.groups, groupId)
       IN ViewGateway(c, "updateRole",
                      Closure(State, "groupToggle", [id |-> groupId], updatedGroupIds,
                              view.groups))

\* GroupList.tsx 97-108: handleDeleteGroup(group)
handleDeleteGroup(c, group) ==
    /\ view.name = "GroupList"
    /\ group \in Elems(view.list)
    /\ ViewGateway(c, "deleteGroup", Closure(State, "deleteGroup", group, 0, <<>>))

\* GroupList.tsx 186-196: the ids the handler takes to be assigned now
uniqueCurrentAppIds(group) == UniqueOf(group.applications \o group.application_ids, <<>>)

\* GroupList.tsx 181-230: handleApplicationToggle(applicationId) in the
\* applications modal
handleApplicationToggle(c, applicationId) ==
    /\ view.name = "GroupList"
    /\ view.selected # NoEntity
    /\ LET updatedAppIds == Toggled(uniqueCurrentAppIds(view.selected), applicationId)
       IN ViewGateway(c, "updateGroup",
                      Closure(State, "applicationToggle", [id |-> applicationId],
                              updatedAppIds, view.applications))

\* a fetch of a load: the gateway is called and the load awaits it
StartFetch(S, c, fn, h) == getAuthHeaders(Start(Await(S, c, h), c, "gateway", fn), c)

\* UserList.tsx 63-65, 75-84: the effect of the mounted UserList calls
\* loadData, which calls the three gateways one after the other and awaits
\* Promise.all of them
loadData(c) ==
    /\ view.name = "UserList"
    /\ view.load = "idle"
    /\ IsNextCall(c)
    /\ c + 2 \in Calls
    /\ LET h == Closure(State, "loadData", [id |-> c], 3, <<>>)
           S0 == [State EXCEPT !.view.loading = TRUE, !.view.load = "pending"]
           S1 == StartFetch(S0, c, "fetchUsers", h)
           S2 == StartFetch(S1, c + 1, "fetchRoles", h)
       IN Becomes(StartFetch(S2, c + 2, "fetchGroups", h))
    /\ UNCHANGED <<authLoaded, now, nextTok>>

\* Dashboard.tsx 74-92: the effect of the mounted Dashboard calls
\* loadDashboardData, which calls the four gateways
loadDashboardData(c) ==
    /\ view.name = "Dashboard"
    /\ view.load = "idle"
    /\ IsNextCall(c)
    /\ c + 3 \in Calls
    /\ LET h == Closure(State, "loadDashboardData", [id |-> c], 4, <<>>)
           S0 == [State EXCEPT !.view.loading = TRUE, !.view.load = "pending",
                               !.view.error = "none"]
           S1 == StartFetch(S0, c, "fetchUsers", h)
           S2 == StartFetch(S1, c + 1, "fetchRoles", h)
           S3 == StartFetch(S2, c + 2, "fetchGroups", h)
       IN Becomes(StartFetch(S3, c + 3, "fetchApplications", h))
    /\ UNCHANGED <<authLoaded, now, nextTok>>

\* GroupList.tsx 462-471: the modal shows the application as assigned
isAssigned(group, applicationId) ==
    \/ applicationId \in Elems(group.applications)
    \/ applicationId \in Elems(group.application_ids)
    \/ AppName(applicationId) \in Elems(group.application_names)

\* UserList.tsx 142: the timer of a notification fires and clears whatever
\* notification is shown
NotificationTimeout ==
    /\ view.timers > 0
    /\ view' = [view EXCEPT !.notification = "none", !.timers = @ - 1]
    /\ UNCHANGED <<authLoaded, now, nextTok, access, refresh, defaultAuth, isRefreshing,
                   failedQueue, refreshPromise, waiters, req, call, navPending, loggedOut,
                   app, mock>>

\* LoginPage.tsx 50-56 -> authApi.ts 160-164: loginWithEmail posts the credentials
loginWithEmail(c) ==
    /\ authLoaded
    /\ IsNextCall(c)
    /\ Becomes(Send([State EXCEPT !.call[c].kind = "loginWithEmail",
                                  !.call[c].st = "awaitHttp"],
                    "login", c, defaultAuth, FALSE, NoRefresh, Parent("call", c), 0))
    /\ UNCHANGED <<authLoaded, now, nextTok>>

\* api.ts 438-440: login posts the credentials
login(c) ==
    /\ IsNextCall(c)
    /\ Becomes(Send([State EXCEPT !.call[c].kind = "login", !.call[c].st = "awaitHttp"],
                    "login", c, defaultAuth, FALSE, NoRefresh, Parent("call", c), 0))
    /\ UNCHANGED <<authLoaded, now, nextTok>>

\* the error statuses the backend answers with while a session is refreshed
ErrorStatuses == {401, 500}

\* a request in flight is answered 200; `data` is the body of a data response
RespondOk(r, data) ==
    /\ req[r].st = "flight"
    /\ IF req[r].kind = "data"
       THEN /\ Becomes(Arrive(State, r, Response(r, NoToken, NoRefresh, data)))
            /\ UNCHANGED nextTok
       ELSE /\ nextTok <= MaxTok
            /\ nextTok' = nextTok + 1
            /\ Becomes(Arrive(State, r,
                   Response(r, IssuedToken(nextTok, now),
                            IF req[r].kind = "login" THEN nextTok ELSE NoRefresh, NoData)))
    /\ UNCHANGED <<authLoaded, now>>

\* a request in flight fails: with an error status and a body, or (NoResponse)
\* without a response
RespondError(r, status, data) ==
    /\ req[r].st = "flight"
    /\ Becomes(Arrive(State, r, AxiosError(r, status, data)))
    /\ UNCHANGED <<authLoaded, now, nextTok>>

\* api.ts 450-454
logout ==
    /\ access' = NoToken
    /\ refresh' = NoRefresh
    /\ navPending' = TRUE
    /\ loggedOut' = TRUE
    /\ UNCHANGED <<authLoaded, now, nextTok, defaultAuth, isRefreshing, failedQueue,
                   refreshPromise, waiters, req, call, app, view, mock>>

\* authApi.ts 196-200
authLogout ==
    /\ authLoaded
    /\ access' = NoToken
    /\ refresh' = NoRefresh
    /\ defaultAuth' = NoToken
    /\ loggedOut' = TRUE
    /\ UNCHANGED <<authLoaded, now, nextTok, isRefreshing, failedQueue,
                   refreshPromise, waiters, req, call, navPending, app, view, mock>>

\* App.tsx 193-198 (Sidebar's Logout button); the router shows /login without
\* loading a new page
handleLogout ==
    /\ authLoaded
    /\ app' = [app EXCEPT !.isAuthenticated = FALSE]
    /\ access' = NoToken
    /\ refresh' = NoRefresh
    /\ defaultAuth' = NoToken
    /\ loggedOut' = TRUE
    /\ UNCHANGED <<authLoaded, now, nextTok, isRefreshing, failedQueue,
                   refreshPromise, waiters, req, call, navPending, view, mock>>

\* the clock passes the next second
Tick ==
    /\ now < MaxTime
    /\ now' = now + 1
    /\ UNCHANGED <<authLoaded, nextTok, access, refresh, defaultAuth, isRefreshing,
                   failedQueue, refreshPromise, waiters, req, call, navPending, loggedOut,
                   app, view, mock>>

\* the page at /login as its modules have been evaluated (api.ts 9,
\* authApi.ts 9-13, 28-31): every request and handler of the old page is gone,
\* localStorage stays
Loaded(S) ==
    [S EXCEPT !.navPending = FALSE, !.isRefreshing = FALSE, !.failedQueue = <<>>,
              !.refreshPromise = FALSE, !.waiters = <<>>, !.req = <<>>,
              !.call = [c \in DOMAIN S.call |-> IdleCall],
              !.defaultAuth = IF authLoaded THEN S.access ELSE NoToken,
              !.app = IF authLoaded THEN LoadingApp(FALSE) ELSE NoApp]

\* The navigation to /login commits: a new page loads, and App runs its auth
\* check before it shows anything.
PageLoad ==
    /\ navPending
    /\ Becomes(IF authLoaded THEN checkAuthStatus(Loaded(State)) ELSE Loaded(State))
    /\ UNCHANGED <<authLoaded, now, nextTok>>

\* The page as it loads: with a session stored by an earlier login, or without
Init ==
    /\ authLoaded \in BOOLEAN
    /\ now = 0
    /\ nextTok = 2
    /\ \/ access = IssuedToken(1, 0) /\ refresh = 1
       \/ access = NoToken /\ refresh = NoRefresh
    /\ loggedOut = FALSE
    /\ defaultAuth = IF authLoaded THEN access ELSE NoToken
    /\ app = IF authLoaded THEN CheckedApp(access # NoToken /\ refresh # NoRefresh) ELSE NoApp
    /\ view = NoView
    /\ mock = MockData
    /\ isRefreshing = FALSE
    /\ failedQueue = <<>>
    /\ refreshPromise = FALSE
    /\ waiters = <<>>
    /\ req = <<>>
    /\ call = [c \in 1..NCalls |-> IdleCall]
    /\ navPending = FALSE

Next ==
    \/ \E c \in Calls : GatewayCall(c, "updateUser")
    \/ \E c \in Calls : DirectCall(c)
    \/ \E c \in Calls : loginWithEmail(c)
    \/ \E c \in Calls : login(c)
    \/ \E r \in DOMAIN req : RespondOk(r, NoData)
    \/ \E r \in DOMAIN req : \E status \in ErrorStatuses : RespondError(r, status, NoData)
    \/ logout
    \/ authLogout
    \/ handleLogout
    \/ Tick
    \/ PageLoad

Spec == Init /\ [][Next]_vars

\* ---- the same page, its requests failing in every way a request can fail:
\* any error status, with the backend's field errors in the body of a 400,
\* or no response at all
AllErrorStatuses == {NoResponse, 400, 401, 403, 404, 500, 502}
FieldErrors == {Json("object", <<1>>), Json("object", <<2>>)}
ErrorBodies(status) == IF status = 400 THEN FieldErrors ELSE {NoData}

NextErrors ==
    \/ \E c \in Calls : GatewayCall(c, "updateUser")
    \/ \E c \in Calls : DirectCall(c)
    \/ \E r \in DOMAIN req : RespondOk(r, NoData)
    \/ \E r \in DOMAIN req : \E status \in AllErrorStatuses :
           \E data \in ErrorBodies(status) : RespondError(r, status, data)
    \/ Tick

SpecErrors == Init /\ [][NextErrors]_vars

\* ---- a page with a stored session whose views send NQueueCalls requests
\* through axios with authApi's interceptor installed (UserList's handlers)
NQueueCalls == 3

InitQueue ==
    /\ authLoaded = TRUE
    /\ now = 0
    /\ nextTok = 2
    /\ access = IssuedToken(1, 0)
    /\ refresh = 1
    /\ loggedOut = FALSE
    /\ defaultAuth = access
    /\ app = CheckedApp(TRUE)
    /\ view = NoView
    /\ mock = MockData
    /\ isRefreshing = FALSE
    /\ failedQueue = <<>>
    /\ refreshPromise = FALSE
    /\ waiters = <<>>
    /\ req = <<>>
    /\ call = [c \in 1..NQueueCalls |-> IdleCall]
    /\ navPending = FALSE

NextQueue ==
    \/ \E c \in Calls : DirectCall(c)
    \/ \E r \in DOMAIN req : RespondOk(r, NoData)
    \/ \E r \in DOMAIN req : \E status \in ErrorStatuses : RespondError(r, status, NoData)

SpecQueue == InitQueue /\ [][NextQueue]_vars

\* ---- a page loading with whatever string an earlier page, another tab or
\* the operator left under access_token
TokenForms == {"jwt", "onePart", "twoPart", "notBase64", "notJson", "noExp"}

\* the forms whose payload gives an exp to compare
HasExp(form) == form \in {"jwt", "twoPart"}

StoredTokens ==
    {StoredToken(1, t, form) : t \in 0..MaxTime, form \in {f \in TokenForms : HasExp(f)}}
        \cup {StoredToken(1, 0, form) : form \in {f \in TokenForms : ~HasExp(f)}}

InitStored ==
    /\ authLoaded \in BOOLEAN
    /\ now = 0
    /\ nextTok = 2
    /\ access \in StoredTokens
    /\ refresh \in {NoRefresh, 1}
    /\ loggedOut = FALSE
    /\ defaultAuth = IF authLoaded THEN access ELSE NoToken
    /\ app = IF authLoaded THEN CheckedApp(access # NoToken /\ refresh # NoRefresh) ELSE NoApp
    /\ view = NoView
    /\ mock = MockData
    /\ isRefreshing = FALSE
    /\ failedQueue = <<>>
    /\ refreshPromise = FALSE
    /\ waiters = <<>>
    /\ req = <<>>
    /\ call = [c \in 1..NCalls |-> IdleCall]
    /\ navPending = FALSE

NextStored ==
    \/ \E c \in Calls : GatewayCall(c, "updateUser")
    \/ \E r \in DOMAIN req : RespondOk(r, NoData)
    \/ \E r \in DOMAIN req : \E status \in ErrorStatuses : RespondError(r, status, NoData)
    \/ Tick

SpecStored == InitStored /\ [][NextStored]_vars

\* the network answers request r, one way or another
Respond(r) ==
    /\ r \in DOMAIN req
    /\ \/ RespondOk(r, NoData)
       \/ \E status \in ErrorStatuses : RespondError(r, status, NoData)

\* the same page on a network that answers every request it is sent
SpecAnswered == SpecStored /\ \A r \in 1..MaxReq : WF_vars(Respond(r))

\* ---- the same page where the operator submits RoleForm or deletes an
\* application: the handlers that ask isAuthenticated() before the gateway
NextGuarded ==
    \/ \E c \in Calls : GuardedCall(c, "createRole")
    \/ \E r \in DOMAIN req : RespondOk(r, NoData)
    \/ \E r \in DOMAIN req : \E status \in ErrorStatuses : RespondError(r, status, NoData)
    \/ Tick

SpecGuarded == InitStored /\ [][NextGuarded]_vars

\* ---- a page with a good session whose views load their lists; the backend
\* answers with a bare array or with a paginated object
MaxList == 2
ListItems == {1, 2}
Lists == UNION {[1..n -> ListItems] : n \in 0..MaxList}
ListBodies == {Json(shape, L) : shape \in {"array", "paged"}, L \in Lists}

InitList ==
    /\ authLoaded \in BOOLEAN
    /\ now = 0
    /\ nextTok = 2
    /\ access = IssuedToken(1, 0)
    /\ refresh = 1
    /\ loggedOut = FALSE
    /\ defaultAuth = IF authLoaded THEN access ELSE NoToken
    /\ app = IF authLoaded THEN CheckedApp(access # NoToken /\ refresh # NoRefresh) ELSE NoApp
    /\ view = NoView
    /\ mock = MockData
    /\ isRefreshing = FALSE
    /\ failedQueue = <<>>
    /\ refreshPromise = FALSE
    /\ waiters = <<>>
    /\ req = <<>>
    /\ call = [c \in 1..NCalls |-> IdleCall]
    /\ navPending = FALSE

NextList ==
    \/ \E c \in Calls : \E fn \in ListGateways : GatewayCall(c, fn)
    \/ \E r \in DOMAIN req : \E data \in ListBodies : RespondOk(r, data)

SpecList == InitList /\ [][NextList]_vars

\* ---- App.tsx with the router: the page loads at any URL with anything in
\* localStorage, App checks the session, then shows the login page or the
\* views (ProtectedRoute, App.tsx 66-68, 215-233)
NAppCalls == 3

InitApp ==
    /\ authLoaded = TRUE
    /\ now = 0
    /\ nextTok = 2
    /\ access \in {NoToken, IssuedToken(1, 0), StoredToken(1, 0, "notJson")}
    /\ refresh \in {NoRefresh, 1}
    /\ loggedOut = FALSE
    /\ defaultAuth = access
    /\ app \in {LoadingApp(search) : search \in BOOLEAN}
    /\ view = NoView
    /\ mock = MockData
    /\ isRefreshing = FALSE
    /\ failedQueue = <<>>
    /\ refreshPromise = FALSE
    /\ waiters = <<>>
    /\ req = <<>>
    /\ call = [c \in 1..NAppCalls |-> IdleCall]
    /\ navPending = FALSE

\* App.tsx 183-186: the effect runs the auth check once
CheckAuthStatus ==
    /\ ~app.authChecked
    /\ Becomes(checkAuthStatus(State))
    /\ UNCHANGED <<authLoaded, now, nextTok>>

\* App.tsx 223-233: the views are rendered for an authenticated operator
ViewsShown == ~app.isLoading /\ app.isAuthenticated
\* App.tsx 215-222: the login page is rendered otherwise
LoginShown == ~app.isLoading /\ ~app.isAuthenticated

ViewGatewayCall(c) == ViewsShown /\ GatewayCall(c, "updateUser")
SubmitLogin(c) == LoginShown /\ loginWithEmail(c)
SidebarLogout == ViewsShown /\ handleLogout

NextApp ==
    \/ CheckAuthStatus
    \/ \E c \in Calls : ViewGatewayCall(c)
    \/ \E c \in Calls : SubmitLogin(c)
    \/ SidebarLogout
    \/ \E r \in DOMAIN req : RespondOk(r, NoData)
    \/ \E r \in DOMAIN req : \E status \in ErrorStatuses : RespondError(r, status, NoData)

SpecApp == InitApp /\ [][NextApp]_vars

\* ---- a list view (UserList, RoleList or GroupList) that has loaded its data,
\* with a session stored; the operator toggles and deletes
NViewCalls == 2
Refs == <<[id |-> 1], [id |-> 2]>>
RefIds == Ids(Refs)

UserListView(users) ==
    [NoView EXCEPT !.name = "UserList", !.list = users, !.roles = Refs, !.groups = Refs]
RoleListView(roles) ==
    [NoView EXCEPT !.name = "RoleList", !.list = roles, !.groups = Refs]
GroupListView(groups) ==
    [NoView EXCEPT !.name = "GroupList", !.list = groups, !.applications = Refs]

\* a group as the backend of this deployment returns it: the three fields agree
SameGroup(id, ids) == Group(id, ids, ids, MapSeq(ids, AppName))

MountedLists ==
    {UserListView(<<User(1, "active", <<1>>), User(2, "inactive", <<>>)>>),
     RoleListView(<<Role(1, <<1>>), Role(2, <<>>)>>),
     GroupListView(<<SameGroup(1, <<1>>), SameGroup(2, <<2, 1>>)>>)}

InitViews ==
    /\ authLoaded \in BOOLEAN
    /\ now = 0
    /\ nextTok = 2
    /\ access = IssuedToken(1, 0)
    /\ refresh = 1
    /\ loggedOut = FALSE
    /\ defaultAuth = IF authLoaded THEN access ELSE NoToken
    /\ app = IF authLoaded THEN CheckedApp(TRUE) ELSE NoApp
    /\ view \in MountedLists
    /\ mock = MockData
    /\ isRefreshing = FALSE
    /\ failedQueue = <<>>
    /\ refreshPromise = FALSE
    /\ waiters = <<>>
    /\ req = <<>>
    /\ call = [c \in 1..NViewCalls |-> IdleCall]
    /\ navPending = FALSE

NextViews ==
    \/ \E c \in Calls : \E user \in Elems(view.list) : handleToggleStatus(c, user)
    \/ \E c \in Calls : \E user \in Elems(view.list) : handleDeleteUser(c, user)
    \/ \E entity \in Elems(view.list) : handleManage(entity)
    \/ \E c \in Calls : \E roleName \in RefIds : handleRoleToggle(c, roleName)
    \/ \E c \in Calls : \E role \in Elems(view.list) : handleDeleteRole(c, role)
    \/ \E c \in Calls : \E groupId \in RefIds : handleGroupToggle(c, groupId)
    \/ \E c \in Calls : \E group \in Elems(view.list) : handleDeleteGroup(c, group)
    \/ \E c \in Calls : \E applicationId \in RefIds : handleApplicationToggle(c, applicationId)
    \/ \E r \in DOMAIN req : RespondOk(r, NoData)
    \/ \E r \in DOMAIN req : \E status \in ErrorStatuses : RespondError(r, status, NoData)

SpecViews == InitViews /\ [][NextViews]_vars

\* ---- GroupList with the applications modal open or not, its group carrying
\* its assignments in any of the three fields the backend may fill
IdLists == {<<>>, <<1>>, <<1, 2>>}
GroupsAsReturned ==
    {Group(1, applications, application_ids, MapSeq(named, AppName)) :
         applications \in IdLists, application_ids \in IdLists, named \in IdLists}

InitGroupApps ==
    /\ authLoaded \in BOOLEAN
    /\ now = 0
    /\ nextTok = 2
    /\ access = IssuedToken(1, 0)
    /\ refresh = 1
    /\ loggedOut = FALSE
    /\ defaultAuth = IF authLoaded THEN access ELSE NoToken
    /\ app = IF authLoaded THEN CheckedApp(TRUE) ELSE NoApp
    /\ view \in {GroupListView(<<group>>) : group \in GroupsAsReturned}
    /\ mock = MockData
    /\ isRefreshing = FALSE
    /\ failedQueue = <<>>
    /\ refreshPromise = FALSE
    /\ waiters = <<>>
    /\ req = <<>>
    /\ call = [c \in 1..NViewCalls |-> IdleCall]
    /\ navPending = FALSE

NextGroupApps ==
    \/ \E entity \in Elems(view.list) : handleManage(entity)
    \/ \E c \in Calls : \E applicationId \in RefIds : handleApplicationToggle(c, applicationId)
    \/ \E r \in DOMAIN req : RespondOk(r, NoData)
    \/ \E r \in DOMAIN req : \E status \in ErrorStatuses : RespondError(r, status, NoData)

SpecGroupApps == InitGroupApps /\ [][NextGroupApps]_vars

\* ---- UserList or Dashboard as it mounts and loads its data, the backend
\* answering the fetches in any order
NLoadCalls == 4
LoadBodies == {Json("array", <<1>>), Json("paged", <<1, 2>>)}

\* UserList.tsx 52-61, Dashboard.tsx 30-33: the state of the first render
Mounting(name) == [NoView EXCEPT !.name = name, !.loading = TRUE]

InitLoad ==
    /\ authLoaded \in BOOLEAN
    /\ now = 0
    /\ nextTok = 2
    /\ access = IssuedToken(1, 0)
    /\ refresh = 1
    /\ loggedOut = FALSE
    /\ defaultAuth = IF authLoaded THEN access ELSE NoToken
    /\ app = IF authLoaded THEN CheckedApp(TRUE) ELSE NoApp
    /\ view \in {Mounting("UserList"), Mounting("Dashboard")}
    /\ mock = MockData
    /\ isRefreshing = FALSE
    /\ failedQueue = <<>>
    /\ refreshPromise = FALSE
    /\ waiters = <<>>
    /\ req = <<>>
    /\ call = [c \in 1..NLoadCalls |-> IdleCall]
    /\ navPending = FALSE

NextLoad ==
    \/ \E c \in Calls : loadData(c)
    \/ \E c \in Calls : loadDashboardData(c)
    \/ \E r \in DOMAIN req : \E data \in LoadBodies : RespondOk(r, data)
    \/ \E r \in DOMAIN req : \E status \in ErrorStatuses : RespondError(r, status, NoData)
    \/ NotificationTimeout
    \/ Tick

SpecLoad == InitLoad /\ [][NextLoad]_vars

\* ---- mockApi.ts: the views of the mock build create and delete entities
MaxMockCalls == 3

\* mockApi.ts 391-392, 421-422, ...: createX(data) or deleteX(id) is called
\* and waits in delay()
mockCall(op, coll, id) ==
    /\ mock.calls < MaxMockCalls
    /\ [op |-> op, coll |-> coll, id |-> id] \notin mock.pending
    /\ mock' = [mock EXCEPT !.pending = @ \cup {[op |-> op, coll |-> coll, id |-> id]},
                            !.calls = @ + 1]
    /\ UNCHANGED <<authLoaded, now, nextTok, access, refresh, defaultAuth, isRefreshing,
                   failedQueue, refreshPromise, waiters, req, call, navPending, loggedOut,
                   app, view>>

\* mockApi.ts 393-403 (createUser; 444-452, 489-496, 528-535): the new entity
\* gets the collection's length plus one as its id and is pushed
mockCreated(q) == Append(q, Len(q) + 1)

\* mockApi.ts 423-425 (deleteUser; 472-474, 515-517, 553-555): the entity with
\* this id is spliced out; the call throws when there is none
mockDeleted(q, id) == SelectSeq(q, LAMBDA e : e # id)

\* the delay of a waiting call has passed: the rest of the function runs
mockDelayed(p) ==
    /\ p \in mock.pending
    /\ mock' = [mock EXCEPT !.pending = @ \ {p},
                            ![p.coll] = IF p.op = "create" THEN mockCreated(@)
                                        ELSE mockDeleted(@, p.id)]
    /\ UNCHANGED <<authLoaded, now, nextTok, access, refresh, defaultAuth, isRefreshing,
                   failedQueue, refreshPromise, waiters, req, call, navPending, loggedOut,
                   app, view>>

NextMock ==
    \/ \E coll \in Collections : mockCall("create", coll, 0)
    \/ \E coll \in Collections : \E id \in Elems(mock[coll]) : mockCall("delete", coll, id)
    \/ \E p \in mock.pending : mockDelayed(p)

SpecMock == Init /\ [][NextMock]_vars

\* ---- the claims

Requests == DOMAIN req
RefreshInFlight == {r \in Requests : req[r].kind = "refresh" /\ req[r].st = "flight"}

\* C1: in every reachable state at most one token-refresh HTTP call is
\* outstanding, counting TokenManager's refreshes and authApi's.
C1_AtMostOneRefreshOutstanding == Cardinality(RefreshInFlight) <= 1

Waiting(c) == call[c].kind = "gateway" /\ call[c].st = "awaitHeaders"
Released == {c \in Calls : Waiting(c) /\ call'[c].st # "awaitHeaders"}
TmRequests == {r \in Requests : req[r].parent.k = "tm"}
IsLast(r, set) == r \in set /\ \A x \in set : x <= r
\* the refresh responses of the step: request x was in flight and is answered
Answered(x) == x \in Requests /\ x \in DOMAIN req' /\ req[x].st = "flight" /\ req'[x].st # "flight"
StoreEmpty == access = NoToken /\ refresh = NoRefresh

\* C2, first half: while gateway calls wait for a fresh token, one refresh
\* call has been issued since TokenManager started its refresh.
C2_ExactlyOneRefresh ==
    (\E c \in Calls : Waiting(c)) =>
        \A t \in TmRequests : IsLast(t, TmRequests) =>
            Cardinality({r \in Requests : r >= t /\ req[r].kind = "refresh"}) = 1

\* C2, second half: the calls released by one refresh all proceed with the
\* same token or all fail with the same error.
C2_SameOutcome ==
    [][\A c, d \in Released :
          /\ call'[c].st = call'[d].st
          /\ call'[c].tok = call'[d].tok
          /\ call'[c].err = call'[d].err]_vars

\* C2: N gateway calls issued while the access token is expired cause exactly
\* one refresh call, and all proceed with the same new token or all fail
\* with the same failure.
C2_SingleFlight ==
    [][/\ C2_ExactlyOneRefresh'
       /\ \A c, d \in Released :
             /\ call'[c].st = call'[d].st
             /\ call'[c].tok = call'[d].tok
             /\ call'[c].err = call'[d].err]_vars

\* C3: every logical request is sent at most twice, whether its 401 started
\* the refresh or arrived while one was in progress.
C3_AtMostTwoSends ==
    \A c \in Calls : Cardinality({r \in Requests : req[r].call = c}) <= 2

\* C4: when the refresh endpoint rejects the refresh TokenManager sent for
\* waiting gateway calls, they fail with the refresh-failed error and both
\* tokens are gone from storage.
C4_RejectedRefreshFailsCall ==
    [][\A t \in TmRequests : \A c \in Calls :
          (Waiting(c) /\ Answered(t) /\ req'[t].resp # 200) =>
              /\ call'[c].st = "failed"
              /\ call'[c].err = "Token refresh failed"
              /\ StoreEmpty']_vars

RefreshErrors == {"No refresh token available", "Token refresh failed"}

\* C5: every refresh failure (refresh answered with an error, refresh token
\* absent) removes both tokens and redirects to /login, on every path.
C5_RefreshFailureClearsSession ==
    [][(\/ \E x \in Requests : Answered(x) /\ req[x].kind = "refresh" /\ req'[x].resp # 200
        \/ \E x \in Requests : x \in DOMAIN req' /\ req[x].note = "none" /\ req'[x].note # "none"
        \/ \E c \in Calls : call[c].err = "none" /\ call'[c].err \in RefreshErrors)
       => (StoreEmpty' /\ navPending')]_vars

\* C6: a gateway call that waited for the refresh continues with the token
\* the refresh endpoint just issued; storage then holds that access token and
\* the refresh token it held before.
C6_RefreshedTokenStored ==
    [][\A c \in Released :
          call'[c].st = "awaitHttp" =>
              /\ \E x \in Requests : /\ Answered(x)
                                     /\ req[x].kind = "refresh"
                                     /\ req'[x].resp = 200
                                     /\ req'[x].respTok = call'[c].tok
              /\ access' = call'[c].tok
              /\ refresh' = refresh]_vars

\* a gateway call went through the refresh and was sent with the stored token
C6_Witness ==
    \E c \in Calls :
        /\ call[c].kind = "gateway"
        /\ call[c].refreshed
        /\ call[c].st = "awaitHttp"
        /\ call[c].tok = access
        /\ call[c].tok # IssuedToken(1, 0)
        /\ refresh # NoRefresh

\* C7: with both tokens removed, every authenticated operation (gateway or
\* UserList's delete / invite) fails as not authenticated and sends nothing.
C7_NoTokenNoRequest ==
    [][\A c \in Calls :
          (/\ StoreEmpty
           /\ call[c].st = "idle"
           /\ call'[c].kind \in {"gateway", "direct"}
           /\ call'[c].st # "idle")
          => (/\ call'[c].st = "failed"
              /\ call'[c].err = "No authentication token found"
              /\ req' = req)]_vars

\* C8: after a logout storage holds no token until the next successful login.
C8_LoggedOutStoreEmpty == loggedOut => StoreEmpty

\* C9: whenever no refresh call is in flight, TokenManager.refreshPromise is
\* null and authApi's isRefreshing is false.
C9_MarkerCleared == (RefreshInFlight = {}) => (~refreshPromise /\ ~isRefreshing)

Resent == {r \in DOMAIN req' : r \notin Requests /\ req'[r].resendOf # 0}

\* C10: a request resent after a 401 carries the access token of the refresh
\* that just completed, never the token it was sent with before.
C10_ResentWithNewToken ==
    [][\A r \in Resent :
          /\ \E x \in Requests : /\ Answered(x)
                                 /\ req[x].kind = "refresh"
                                 /\ req'[x].resp = 200
                                 /\ req'[x].respTok = req'[r].bearer
          /\ req'[r].bearer # req'[req'[r].resendOf].bearer]_vars

\* a queued request and the request that started the refresh were both resent
C10_Witness ==
    /\ \E r \in Requests : /\ req[r].resendOf # 0
                           /\ req[r].parent.k = "authRetry"
                           /\ ~req[r].retry
                           /\ req[r].bearer = access
    /\ \E r \in Requests : /\ req[r].resendOf # 0
                           /\ req[r].retry
                           /\ req[r].bearer = access

\* the requests a view or a login form made, first sends and resends
IsCallerRequest(x) == req[x].kind \in {"data", "login"}

\* C11: a request answered with an error status other than 401, or not
\* answered at all, starts no refresh and is not sent again: no request is
\* dispatched, the token store and both refresh markers stay as they are, and
\* the caller's promise rejects.
C11_OtherErrorsPropagate ==
    [][\A x \in Requests :
          (Answered(x) /\ IsCallerRequest(x) /\ req'[x].resp \notin {200, 401}) =>
              /\ Len(req') = Len(req)
              /\ access' = access
              /\ refresh' = refresh
              /\ isRefreshing' = isRefreshing
              /\ refreshPromise' = refreshPromise
              /\ call[req[x].call].st = "awaitHttp"
              /\ call'[req[x].call].st = "failed"]_vars

\* a 403 answered to a request resent after a refresh and a network failure
\* both reached their callers, and the session is still stored
C11_Witness ==
    /\ ~StoreEmpty
    /\ \E x, y \in Requests :
          /\ req[x].kind = "data" /\ req[x].st = "done" /\ req[x].resp = 403
          /\ req[x].resendOf # 0
          /\ call[req[x].call].st = "failed" /\ call[req[x].call].status = 403
          /\ req[y].kind = "data" /\ req[y].st = "done" /\ req[y].resp = NoResponse
          /\ call[req[y].call].st = "failed"

\* the refresh requests authApi's interceptor sent
AuthRefreshes == {x \in Requests : req[x].parent.k = "authRefresh"}
\* the requests dispatched in this step
Dispatched == DOMAIN req' \ Requests
\* request n is the resend of the request whose handler waited as entry w
IsRetryOf(n, w) ==
    /\ n \in Dispatched
    /\ req'[n].parent = Parent("authRetry", w)
    /\ req'[n].resendOf = req[w].orig

\* C12: when the refresh authApi awaits settles, the requests queued in
\* failedQueue are resent in the order they were queued, all with the token of
\* that refresh response, or all fail with the error of that refresh; the
\* queue is empty afterwards.
C12_QueueResolvedInOrder ==
    [][\A x \in AuthRefreshes :
          (Answered(x) /\ req'[x].st = "done") =>
              /\ failedQueue' = <<>>
              /\ req'[x].resp = 200 =>
                    \A i \in DOMAIN failedQueue :
                        \E n \in Dispatched :
                            /\ IsRetryOf(n, failedQueue[i])
                            /\ req'[n].bearer = req'[x].respTok
                            /\ \A j \in DOMAIN failedQueue : \A m \in Dispatched :
                                  (i < j /\ IsRetryOf(m, failedQueue[j])) => n < m
              /\ req'[x].resp # 200 =>
                    \A i \in DOMAIN failedQueue :
                        LET c == req[failedQueue[i]].call
                            error == AxiosError(x, req'[x].resp, NoData)
                            thrown == IF c \in Calls /\ call[c].kind \in ThroughHandleApiCall
                                      THEN handleApiCall(error) ELSE error
                        IN c \in Calls =>
                              /\ call'[c].st = "failed"
                              /\ call'[c].err = thrown.msg
                              /\ call'[c].status = thrown.status]_vars

\* two queued requests of different calls were resent, in order, with the
\* stored token, and the queue is empty
C12_Witness ==
    /\ failedQueue = <<>>
    /\ ~isRefreshing
    /\ \E n, m \in Requests :
          /\ n < m
          /\ req[n].parent.k = "authRetry" /\ req[m].parent.k = "authRetry"
          /\ req[n].parent.id < req[m].parent.id
          /\ ~req[n].retry /\ ~req[m].retry
          /\ req[n].call # req[m].call
          /\ req[n].bearer = access /\ req[m].bearer = access

\* C13: a gateway called while the stored access token is present and not
\* expired sends its request with that token in the same step; no refresh
\* call is issued and the token store is left as it was.
C13_FreshTokenReturned ==
    [][\A c \in Calls :
          (/\ call[c].st = "idle"
           /\ call'[c].kind = "gateway"
           /\ access # NoToken
           /\ ~isTokenExpired(access))
          => (/\ call'[c].st = "awaitHttp"
              /\ call'[c].tok = access
              /\ Dispatched = {Len(req) + 1}
              /\ req'[Len(req) + 1].kind = "data"
              /\ req'[Len(req) + 1].bearer = access
              /\ access' = access
              /\ refresh' = refresh
              /\ refreshPromise' = refreshPromise
              /\ waiters' = waiters)]_vars

\* a gateway call went out with a stored token that was issued after the page
\* loaded and is still good, without asking for a refresh
C13_Witness ==
    \E c \in Calls :
        /\ call[c].kind = "gateway"
        /\ call[c].st = "awaitHttp"
        /\ ~call[c].refreshed
        /\ call[c].tok = access
        /\ access.exp = now
        /\ now > 0
        /\ \A r \in Requests : req[r].kind # "refresh"

\* the stored strings whose expiry the claim calls undecodable
MalformedForms == {"onePart", "twoPart", "notBase64", "notJson", "noExp"}

\* C14: isTokenExpired is true for every stored token that is not a three-part
\* token, whose payload is not base64 or not JSON, or whose payload has no
\* exp; a gateway never sends its request with such a token as it found it.
C14_MalformedTreatedExpired ==
    [][access.form \in MalformedForms =>
          /\ isTokenExpired(access)
          /\ \A c \in Calls :
                (call[c].st = "idle" /\ call'[c].kind = "gateway") =>
                    ~(call'[c].st = "awaitHttp" /\ call'[c].tok = access)]_vars

\* C15: a gateway call whose request fails is surfaced by kind: a 400 as the
\* validation error with the backend's field errors, a 403 as the error
\* with status 403, every 5xx as the server error, and a request without a
\* response as the error without a response.
C15_SurfacedByStatus ==
    [][\A x \in Requests :
          (/\ Answered(x)
           /\ req[x].kind = "data"
           /\ call[req[x].call].kind = "gateway"
           /\ req'[x].resp \notin {200, 401})
          => LET c == req[x].call
                 status == req'[x].resp
             IN /\ call'[c].st = "failed"
                /\ status = 400 => /\ call'[c].err = "Validation failed"
                                   /\ call'[c].result = req'[x].respData
                /\ status = 403 => /\ call'[c].err = "AxiosError"
                                   /\ call'[c].status = 403
                /\ status >= 500 => call'[c].err = "Server error occurred"
                /\ status = NoResponse => /\ call'[c].err = "AxiosError"
                                          /\ call'[c].status = NoResponse]_vars

\* C16: fetchUsers, fetchRoles, fetchGroups and fetchApplications return the
\* plain sequence L to the view, in the order of the body, whether the body
\* of the response is {results: L} or L.
C16_ListNormalized ==
    [][\A x \in Requests :
          (/\ Answered(x)
           /\ req'[x].resp = 200
           /\ call[req[x].call].fn \in ListGateways
           /\ req'[x].respData.shape \in {"array", "paged"})
          => /\ call'[req[x].call].st = "ok"
             /\ call'[req[x].call].result = Json("array", req'[x].respData.items)]_vars

\* request x is the login the server accepted, the one login of this page
IsTheLogin(x) ==
    /\ req[x].kind = "login"
    /\ req[x].resp = 200
    /\ \A y \in Requests : req[y].kind = "login" => req[y].call = req[x].call

\* C17, the login: the step in which the server accepts a login leaves the
\* access token and the refresh token of the response in storage.
C17_LoginStoresTokens ==
    [][\A x \in Requests :
          (Answered(x) /\ req[x].kind = "login" /\ req'[x].resp = 200) =>
              /\ access' = req'[x].respTok
              /\ refresh' = req'[x].respTok.id]_vars

\* C17: an accepted login stores both tokens of its response, and a gateway
\* called after it, while that access token is good, nobody logged out and no
\* refresh was started since the login was submitted, sends its request with
\* that token: no refresh, no redirect to /login.
C17_LoginThenCall ==
    [][/\ \A x \in Requests :
             (Answered(x) /\ req[x].kind = "login" /\ req'[x].resp = 200) =>
                 /\ access' = req'[x].respTok
                 /\ refresh' = req'[x].respTok.id
       /\ \A x \in Requests : \A c \in Calls :
             (/\ IsTheLogin(x)
              /\ ~loggedOut
              /\ \A y \in Requests : req[y].kind = "refresh" => y < x
              /\ ~isTokenExpired(req[x].respTok)
              /\ call[c].st = "idle"
              /\ call'[c].kind = "gateway")
             => (/\ call'[c].st = "awaitHttp"
                 /\ call'[c].tok = req[x].respTok
                 /\ \A n \in Dispatched : req'[n].kind = "data"
                 /\ navPending' = navPending)]_vars

\* C18: the auth check of a page loaded with ?logout=true leaves no token in
\* storage and App unauthenticated, whatever was stored before.
C18_ForcedLogoutClears ==
    [][(~app.authChecked /\ app.search /\ app'.authChecked) =>
          /\ StoreEmpty'
          /\ ~app'.isAuthenticated
          /\ ~app'.isLoading]_vars

\* the forced logout ran on a page that had a token stored, and the login page
\* is shown
C18_Witness ==
    /\ app.forced
    /\ app.found
    /\ app.authChecked
    /\ StoreEmpty
    /\ LoginShown

\* a gateway call is waiting: for the refresh, or for its own request
Pending(c) == call[c].st \in {"awaitHeaders", "awaitHttp"}

\* C19: on a network that answers every request, every gateway call that
\* waits, for a refresh or for its request, eventually completes or fails,
\* whatever the refresh endpoint answers.
C19_NoCallerWaitsForever ==
    \A c \in 1..NCalls : [](Pending(c) => <>(call[c].st \in {"ok", "failed"}))

\* the operator's action c starts in this step
Begins(c) == call[c].st = "idle" /\ call'[c].st # "idle"

\* C20: an operator action that needs the backend, started with a well-formed
\* but expired access token and a refresh token in storage, is not refused
\* before any request is made: it waits for the refresh coordinator, which has
\* a refresh request under way.
C20_ExpiredTokenRefreshed ==
    [][\A c \in Calls :
          (/\ Begins(c)
           /\ access.form = "jwt" /\ access.exp < now
           /\ refresh # NoRefresh)
          => /\ call'[c].st = "awaitHeaders"
             /\ \E r \in DOMAIN req' : req'[r].kind = "refresh"]_vars

\* request x is a login the server rejects in this step
LoginRejected(x) == Answered(x) /\ req[x].kind = "login" /\ req'[x].resp # 200

\* C26: the step in which the server rejects a login, with 401 or any other
\* status, leaves both tokens in storage as they were, starts no refresh and
\* sends nothing: no request is dispatched and nothing waits to resend it.
C26_RejectedLoginInert ==
    [][\A x \in Requests :
          LoginRejected(x) =>
              /\ access' = access
              /\ refresh' = refresh
              /\ Dispatched = {}
              /\ isRefreshing' = isRefreshing
              /\ refreshPromise' = refreshPromise
              /\ failedQueue' = failedQueue]_vars

\* C27: the token store holds an access token and a refresh token, or neither
\* of them.
C27_BothTokensOrNeither == (access = NoToken) <=> (refresh = NoRefresh)

\* request x, sent again after a refresh, fails in this step
ResendFails(x) ==
    Answered(x) /\ req[x].kind = "data" /\ req[x].resendOf # 0 /\ req'[x].resp # 200

\* C28: when a request that was sent again after a successful refresh fails,
\* with 401 or any other error, both tokens stay in storage as they are, no
\* redirect to /login and no further request is started, and the caller's
\* promise rejects with the error of the resent request.
C28_ResendFailureSurfaced ==
    [][\A x \in Requests :
          ResendFails(x) =>
              LET c == req[x].call
                  error == AxiosError(x, req'[x].resp, NoData)
                  thrown == IF call[c].kind \in ThroughHandleApiCall
                            THEN handleApiCall(error) ELSE error
              IN /\ access' = access
                 /\ refresh' = refresh
                 /\ navPending' = navPending
                 /\ Dispatched = {}
                 /\ call'[c].st = "failed"
                 /\ call'[c].err = thrown.msg
                 /\ call'[c].status = thrown.status]_vars

\* the handler awaiting call c is one of the update and delete handlers
IsWrite(c) ==
    /\ c \in DOMAIN view'.handlers
    /\ view'.handlers[c].op \notin {"loadData", "loadDashboardData"}
\* the promise of call c rejects in this step
Fails(c) == call[c].st # "failed" /\ call'[c].st = "failed"

\* C21: when the update or delete a handler of UserList, RoleList or GroupList
\* awaits fails, the view's list and its selected entity are what they were
\* before the failure and the error notification is shown.
C21_FailedWriteKeepsState ==
    [][\A c \in Calls :
          (IsWrite(c) /\ Fails(c)) =>
              /\ view'.list = view.list
              /\ view'.selected = view.selected
              /\ view'.notification = "error"]_vars

\* a toggle in a modal failed after another write of the same view had
\* succeeded: the list still shows the first write, the modal its entity
C21_Witness ==
    \E c, d \in DOMAIN view.handlers :
        /\ c < d
        /\ call[c].st = "ok"
        /\ call[d].st = "failed"
        /\ view.handlers[d].op \in {"roleToggle", "groupToggle", "applicationToggle"}
        /\ view.handlers[d].list # view.list
        /\ view.selected # NoEntity
        /\ view.notification = "error"

\* the user a handler of UserList changes
Target(h) == IF h.op = "roleToggle" THEN h.selected.id ELSE h.arg.id

\* the users list shows the change that handler h had confirmed
Reflects(h) ==
    CASE h.op = "toggleStatus" ->
           \E i \in DOMAIN view.list :
               view.list[i].id = h.arg.id /\ view.list[i].status = h.updated
      [] h.op = "deleteUser" -> h.arg.id \notin Ids(view.list)
      [] h.op = "roleToggle" ->
           \E i \in DOMAIN view.list :
               view.list[i].id = h.selected.id /\ view.list[i].roles = h.updated
      [] OTHER -> TRUE

\* C23: when two writes of UserList on different users were in flight at the
\* same time and both have succeeded, the users list shows both changes.
C23_BothChangesKept ==
    \A c, d \in DOMAIN view.handlers :
        (/\ view.name = "UserList"
         /\ DOMAIN view.handlers = {c, d}
         /\ c \in view.handlers[d].during
         /\ call[c].st = "ok" /\ call[d].st = "ok"
         /\ Target(view.handlers[c]) # Target(view.handlers[d]))
        => Reflects(view.handlers[c]) /\ Reflects(view.handlers[d])

\* the applications the modal shows as assigned to the group
ShownAssigned(group) == {a \in RefIds : isAssigned(group, a)}

\* C25: the update that handleApplicationToggle sends for application a of the
\* selected group carries the applications the modal shows as assigned,
\* without a if a was shown as assigned and with a if it was not, in
\* whichever of the three fields the group carries its assignments.
C25_ToggleSendsShownAssignments ==
    [][\A c \in Calls :
          (/\ call[c].st = "idle"
           /\ c \in DOMAIN view'.handlers
           /\ view'.handlers[c].op = "applicationToggle")
          => LET a == view'.handlers[c].arg.id
                 sent == Elems(view'.handlers[c].updated)
             IN sent = IF isAssigned(view.selected, a)
                       THEN ShownAssigned(view.selected) \ {a}
                       ELSE ShownAssigned(view.selected) \cup {a}]_vars

\* the fetches of UserList's load and what they returned
UserFetches == {c \in DOMAIN view.handlers : view.handlers[c].op = "loadData"}
Fetched(fn) ==
    {ExtractResults(call[c].result).items : c \in {d \in UserFetches : call[d].fn = fn}}
ListsEmpty == view.list = <<>> /\ view.roles = <<>> /\ view.groups = <<>>

\* C24: UserList.loadData leaves users, roles and groups empty until all three
\* fetches have completed and then sets them to what the three returned; once
\* any of the three has failed the three lists are empty and the loading flag
\* is cleared, and the step of the first failure shows the error
\* notification.
C24_LoadAllOrNothing ==
    [][view'.name = "UserList" =>
          /\ ~ListsEmpty' =>
                /\ \A c \in UserFetches' : call'[c].st = "ok"
                /\ Fetched("fetchUsers")' = {view'.list}
                /\ Fetched("fetchRoles")' = {view'.roles}
                /\ Fetched("fetchGroups")' = {view'.groups}
                /\ ~view'.loading
          /\ (\E c \in UserFetches' : call'[c].st = "failed") =>
                (ListsEmpty' /\ ~view'.loading)
          /\ (/\ \E c \in UserFetches' : Fails(c)
              /\ \A c \in UserFetches' : call[c].st # "failed") =>
                view'.notification = "error"]_vars

\* the three lists are set, and the users arrived last: their fetch was
\* answered 401 and sent again after the refresh
C24_Witness ==
    /\ view.name = "UserList"
    /\ view.load = "done"
    /\ ~view.loading
    /\ view.list # <<>> /\ view.roles # <<>> /\ view.groups # <<>>
    /\ \E y \in Requests :
          /\ req[y].kind = "data"
          /\ req[y].resendOf # 0
          /\ call[req[y].call].fn = "fetchUsers"

\* the fetches of the load the mounted view has started
LoadFetches ==
    {c \in DOMAIN view.handlers : view.handlers[c].op \in {"loadData", "loadDashboardData"}}

\* C22: when the load of a view ends and one of its fetches has failed, the
\* view shows an error (its error notification or its error state); the
\* Dashboard does not show counts in which the failed fetch stands as empty.
C22_LoadFailureShown ==
    [][(/\ view.load = "pending"
        /\ view'.load # "pending"
        /\ \E c \in LoadFetches' : call'[c].st = "failed")
       => /\ view'.notification = "error" \/ view'.error # "none"
          /\ ~view'.stats.set]_vars

\* C29: the entities of every mockApi collection have pairwise distinct ids.
C29_MockIdsDistinct ==
    \A coll \in Collections :
        \A i, j \in DOMAIN mock[coll] : i # j => mock[coll][i] # mock[coll][j]

====
